---- MODULE Spec2Model ----
(***************************************************************************)
(* NestPause data layer: the request-approval lifecycle (RequestService    *)
(* over BaseService) and the offline operation queue (OfflineManager with  *)
(* the ErrorHandler classifier).                                           *)
(*                                                                         *)
(* Every service method is asynchronous: it suspends at each awaited       *)
(* database call.  A method is therefore modelled as one action per        *)
(* stretch of code between two awaits, and the callers interleave at the   *)
(* awaits.                                                                 *)
(***************************************************************************)
EXTENDS Integers, Sequences, FiniteSets, TLC

VARIABLES
    now,          \* the wall clock (Date.now()), in milliseconds
    request,      \* one document of the "requests" collection, or NoDoc
    call,         \* per caller: the service method it is in and its locals
    decisionLog,  \* history: the decisions whose calls returned success, in order
    offlineState,     \* OfflineManager.offlineState
    operationQueue,   \* OfflineManager.operationQueue: ids of the queued entries
    isProcessingQueue,\* OfflineManager.isProcessingQueue
    entry,            \* the OfflineOperation objects and the timers of their promise
    exec,             \* per operation: its executeWithOfflineSupport call and promise
    thunk,            \* per operation: how often it was invoked, runs of retry timers
    onlineHooks,      \* handleOnlineTransition calls awaiting disableOfflineMode()
    drains,           \* the processOperationQueue runs awaiting Promise.allSettled
    lastDrainRequest, \* "dropped" once a call returned early during the running drain
    retryTimers,      \* the setTimeout retries scheduled by executeQueuedOperation
    hookCalled,       \* the transition handler the latest network state change called
    retry,            \* one withRetry call: its loop variables and its promise
    lastCall,         \* the latest call of an ErrorHandler method and what it gave
    store,            \* useAppStore: the state the zustand store holds
    listeners,        \* the database listeners that are live (not yet unsubscribed)
    initTasks,        \* initializeSubscriptions calls whose microtask has not run
    signOuts,         \* signOut calls awaiting authService.signOut()
    lastLogout,       \* history: the logout that completed since the latest login
    firestoreNetwork, \* the database client: network enabled, requests in progress
    rule,             \* one document of the "rules" collection, or NoDoc
    ruleCall          \* per caller: the RuleService method it is in and its locals

reqVars == <<request, call, decisionLog>>
offVars == <<offlineState, operationQueue, isProcessingQueue, entry, exec, thunk,
             onlineHooks, drains, lastDrainRequest, retryTimers, hookCalled>>
errVars == <<retry, lastCall>>
storeVars == <<store, listeners, initTasks, signOuts, lastLogout>>
ruleVars == <<rule, ruleCall>>
notReqVars == <<offVars, errVars, storeVars, firestoreNetwork, ruleVars>>
notOffVars == <<reqVars, errVars, storeVars, firestoreNetwork, ruleVars>>
notErrVars == <<reqVars, offVars, storeVars, firestoreNetwork, ruleVars>>
notStoreVars == <<reqVars, offVars, errVars, firestoreNetwork, ruleVars>>
notRuleVars == <<reqVars, offVars, errVars, storeVars, firestoreNetwork>>
vars == <<now, reqVars, offVars, errVars, storeVars, firestoreNetwork, ruleVars>>

----------------------------------------------------------------------------
(* Bounds of the model *)

NumCallers == 2
MaxDecisions == 2
MaxHours == 2
NumOps == 2
MaxHooks == 2
MaxRetriesArg == 1
MaxWithRetries == 3
MaxAttemptIndex == 6
MaxLogins == 2
MaxPending == 4
MaxTargets == 2

Callers == 1..NumCallers
Ops == 1..NumOps

\* createRequest multiplies hours by 60 * 60 * 1000
HourMs == 60 * 60 * 1000

\* the expiresInHours / additionalHours arguments that are tried
HourArgs == {1}

----------------------------------------------------------------------------
(* OfflineManager: the state after construction *)

NoEntry == [made |-> FALSE, timestamp |-> 0, retryCount |-> 0, maxRetries |-> 0,
            interval |-> FALSE, timeout |-> FALSE]

NoExec == [via |-> "none", queueOnOffline |-> FALSE, maxRetries |-> 0,
           promise |-> "none", with |-> "none"]

OffStart ==
    /\ offlineState = [isConnected |-> TRUE, isInternetReachable |-> TRUE,
                       isOfflineMode |-> FALSE]
    /\ operationQueue = <<>>
    /\ isProcessingQueue = FALSE
    /\ entry = [o \in Ops |-> NoEntry]
    /\ exec = [o \in Ops |-> NoExec]
    /\ thunk = [o \in Ops |-> [invoked |-> 0, running |-> 0, succeeded |-> FALSE]]
    /\ onlineHooks = 0
    /\ drains = <<>>
    /\ lastDrainRequest = "none"
    /\ retryTimers = {}
    /\ hookCalled = "none"

----------------------------------------------------------------------------
(* RequestService.  Every method works on the one document its requestId   *)
(* names (cleanupExpiredRequests: one update per document), so the model   *)
(* follows a single document.                                              *)

NoDoc == [exists |-> FALSE]

Decisions == {"approve", "deny"}

Terminal == {"approved", "denied", "expired"}

\* a caller that is in no method; a method keeps only the locals it still reads
IdleCall == [pc |-> "idle", op |-> "none", approvals |-> <<>>,
             newExpiry |-> 0, tnow |-> 0, result |-> "none"]

\* private calculateRequestStatus(approvals)
calculateRequestStatus_ApproveFirst(approvals) ==
    IF Len(approvals) = 0 THEN "pending"
    ELSE IF \E i \in 1..Len(approvals) : approvals[i].decision = "approve"
         THEN "approved"
    ELSE IF \E i \in 1..Len(approvals) : approvals[i].decision = "deny"
         THEN "denied"
    ELSE "pending"

calculateRequestStatus(approvals) ==
    IF Len(approvals) = 0 THEN "pending"
    ELSE IF \E i \in 1..Len(approvals) : approvals[i].decision = "deny"
         THEN "denied"
    ELSE IF \E i \in 1..Len(approvals) : approvals[i].decision = "approve"
         THEN "approved"
    ELSE "pending"

\* the Approval record approveRequest / denyRequest build; parentId, reason
\* and timestamp are stored with it and read by none of the methods here
Approval(decision) == [decision |-> decision]

\* const updatedApprovals = [...request.data.approvals, approval], where
\* request is the document getById returned before the update was issued
updatedApprovals_Atomic(c) ==
    Append(request.approvals, Approval(call[c].op))

updatedApprovals(c) ==
    Append(call[c].approvals, Approval(call[c].op))

\* the condition of checkRequestExpiry, on the document read and new Date()
expiryDue_Inclusive(doc, t) == doc.expiresAt <= t /\ doc.status = "pending"

expiryDue(doc, t) == doc.expiresAt < t /\ doc.status = "pending"

\* getExpiredRequests: where expiresAt < now, now taken when the method is
\* called: does the query return the document?
getExpiredRequests_Inclusive(t) == request.exists /\ request.expiresAt <= t

getExpiredRequests(t) == request.exists /\ request.expiresAt < t

\* BaseService.update: updateDoc merges the given fields into the stored document
update(fields) ==
    request' =
        [exists |-> TRUE,
         status |-> IF "status" \in DOMAIN fields
                    THEN fields.status ELSE request.status,
         approvals |-> IF "approvals" \in DOMAIN fields
                       THEN fields.approvals ELSE request.approvals,
         expiresAt |-> IF "expiresAt" \in DOMAIN fields
                       THEN fields.expiresAt ELSE request.expiresAt]

\* the method returns res to its caller; a decision that succeeded keeps the
\* list it had read, a failure is the same { success: false } from any method
Returns(c, res) ==
    call' = [call EXCEPT ![c] =
        IF res = "ok"
        THEN [IdleCall EXCEPT !.pc = "done", !.op = call[c].op,
                              !.approvals = IF call[c].op \in Decisions
                                            THEN call[c].approvals ELSE <<>>,
                              !.result = "ok"]
        ELSE [IdleCall EXCEPT !.pc = "done", !.result = res]]

ReturnsAtOnce(c, op, res) ==
    call' = [call EXCEPT ![c] =
        IF res = "ok"
        THEN [IdleCall EXCEPT !.pc = "done", !.op = op, !.result = "ok"]
        ELSE [IdleCall EXCEPT !.pc = "done", !.result = res]]

\* decision calls that are between their read and their update
DecisionsInFlight ==
    Cardinality({c \in Callers : call[c].pc = "read" /\ call[c].op \in Decisions})

\* no document yet, no call in progress
ReqStart ==
    /\ request = NoDoc
    /\ call = [c \in Callers |-> IdleCall]
    /\ decisionLog = <<>>

\* createRequest: status pending, no approvals, expiresAt = now + hours
createRequest(expiresInHours) ==
    /\ ~request.exists
    /\ request' = [exists |-> TRUE, status |-> "pending", approvals |-> <<>>,
                   expiresAt |-> now + expiresInHours * HourMs]
    /\ UNCHANGED <<notReqVars, now, call, decisionLog>>

\* getById of any method: the document is missing ('Document not found') or
\* the read throws and handleError turns it into a failure
getByIdFails(c, op) ==
    /\ call[c].pc = "idle"
    /\ ReturnsAtOnce(c, op, "fail")
    /\ UNCHANGED <<notReqVars, now, request, decisionLog>>

\* approveRequest / denyRequest up to the update: getById returns the document
decisionRead(c, op) ==
    /\ call[c].pc = "idle" /\ request.exists
    /\ Len(decisionLog) + DecisionsInFlight < MaxDecisions
    /\ call' = [call EXCEPT ![c] =
           [IdleCall EXCEPT !.pc = "read", !.op = op,
                            !.approvals = request.approvals]]
    /\ UNCHANGED <<notReqVars, now, request, decisionLog>>

\* approveRequest / denyRequest: the update lands
decisionUpdate(c) ==
    /\ call[c].pc = "read" /\ call[c].op \in Decisions
    /\ update([approvals |-> updatedApprovals(c),
               status |-> calculateRequestStatus(updatedApprovals(c))])
    /\ decisionLog' = Append(decisionLog, Approval(call[c].op))
    /\ Returns(c, "ok")
    /\ UNCHANGED <<notReqVars, now>>

\* checkRequestExpiry up to the update: now = new Date() is taken right after
\* getById resolves; a request that is not due is returned as read
checkRead(c) ==
    /\ call[c].pc = "idle" /\ request.exists
    /\ IF expiryDue(request, now)
       THEN call' = [call EXCEPT ![c] =
                [IdleCall EXCEPT !.pc = "read", !.op = "check"]]
       ELSE ReturnsAtOnce(c, "check", "ok")
    /\ UNCHANGED <<notReqVars, now, request, decisionLog>>

\* checkRequestExpiry: update(requestId, { status: 'expired' }) lands
checkUpdate(c) ==
    /\ call[c].pc = "read" /\ call[c].op = "check"
    /\ update([status |-> "expired"])
    /\ Returns(c, "ok")
    /\ UNCHANGED <<notReqVars, now, decisionLog>>

\* extendRequestExpiry up to the update: newExpiryDate from the document read
extendRead(c, additionalHours) ==
    /\ call[c].pc = "idle" /\ request.exists
    /\ request.expiresAt + additionalHours * HourMs <= MaxHours * HourMs
    /\ call' = [call EXCEPT ![c] =
           [IdleCall EXCEPT !.pc = "read", !.op = "extend",
                !.newExpiry = request.expiresAt + additionalHours * HourMs]]
    /\ UNCHANGED <<notReqVars, now, request, decisionLog>>

\* extendRequestExpiry: update(requestId, { expiresAt: newExpiryDate }) lands
extendUpdate(c) ==
    /\ call[c].pc = "read" /\ call[c].op = "extend"
    /\ update([expiresAt |-> call[c].newExpiry])
    /\ Returns(c, "ok")
    /\ UNCHANGED <<notReqVars, now, decisionLog>>

\* the update of any of the methods above throws: nothing is written
updateFails(c) ==
    /\ call[c].pc \in {"read", "sweep"}
    /\ Returns(c, "fail")
    /\ UNCHANGED <<notReqVars, now, request, decisionLog>>

\* cleanupExpiredRequests is called: getExpiredRequests takes now = new Date()
cleanupCall(c) ==
    /\ call[c].pc = "idle"
    /\ call' = [call EXCEPT ![c] =
           [IdleCall EXCEPT !.pc = "query", !.op = "cleanup", !.tnow = now]]
    /\ UNCHANGED <<notReqVars, now, request, decisionLog>>

\* the query returns; the document is to be updated if the query returned it
\* and its status, as returned, is pending
cleanupQuery(c) ==
    /\ call[c].pc = "query"
    /\ IF getExpiredRequests(call[c].tnow) /\ request.status = "pending"
       THEN call' = [call EXCEPT ![c].pc = "sweep", ![c].tnow = 0]
       ELSE Returns(c, "ok")
    /\ UNCHANGED <<notReqVars, now, request, decisionLog>>

\* the query throws: 'Failed to fetch expired requests'
cleanupQueryFails(c) ==
    /\ call[c].pc = "query"
    /\ Returns(c, "fail")
    /\ UNCHANGED <<notReqVars, now, request, decisionLog>>

\* cleanupExpiredRequests: update(request.id, { status: 'expired' }) lands
cleanupUpdate(c) ==
    /\ call[c].pc = "sweep"
    /\ update([status |-> "expired"])
    /\ Returns(c, "ok")
    /\ UNCHANGED <<notReqVars, now, decisionLog>>

\* the caller takes the result; it may call again
Return(c) ==
    /\ call[c].pc = "done"
    /\ call' = [call EXCEPT ![c] = IdleCall]
    /\ UNCHANGED <<notReqVars, now, request, decisionLog>>

\* an hour passes
Tick ==
    /\ now < MaxHours * HourMs
    /\ now' = now + HourMs
    /\ UNCHANGED <<notReqVars, reqVars>>

\* the ErrorHandler singleton and withRetry before any call
NoRetry ==
    [pc |-> "idle", maxRetries |-> 0, attempt |-> 0, invoked |-> 0,
     failures |-> <<>>, waited |-> <<>>, outcome |-> "none"]

NoCall == [fn |-> "none", arg |-> <<>>, attempt |-> 0, jitter |-> 0, result |-> <<>>]

ErrStart ==
    /\ retry = NoRetry
    /\ lastCall = NoCall

\* useAppStore as created: the "Initial State" of the store, nothing subscribed
NoUser == [id |-> 0, familyId |-> 0]

InitialState ==
    [user |-> NoUser, family |-> 0, devices |-> {}, rules |-> {}, requests |-> {},
     notifications |-> {}, isLoading |-> FALSE, error |-> "null",
     subscriptions |-> {}]

StoreStart ==
    /\ store = InitialState
    /\ listeners = {}
    /\ initTasks = [calls |-> 0, pending |-> <<>>]
    /\ signOuts = {}
    /\ lastLogout = "none"

\* the Firestore client as getFirestore returns it: network access enabled
NetStart == firestoreNetwork = [enabled |-> TRUE, pending |-> <<>>]

\* RuleService: no rule yet, no call in progress
NoRuleCall == [pc |-> "idle", op |-> "none", userId |-> 0, fields |-> <<>>,
               result |-> "none"]

RuleStart ==
    /\ rule = NoDoc
    /\ ruleCall = [c \in 1..NumCallers |-> NoRuleCall]

ReqInit ==
    /\ now = 0
    /\ ReqStart
    /\ OffStart
    /\ ErrStart
    /\ StoreStart
    /\ NetStart
    /\ RuleStart

ReqNext ==
    \/ \E h \in HourArgs : createRequest(h)
    \/ \E c \in Callers :
          \E op \in {"approve", "deny", "check", "extend"} : getByIdFails(c, op)
    \/ \E c \in Callers, op \in Decisions : decisionRead(c, op)
    \/ \E c \in Callers : decisionUpdate(c)
    \/ \E c \in Callers : checkRead(c)
    \/ \E c \in Callers : checkUpdate(c)
    \/ \E c \in Callers, h \in HourArgs : extendRead(c, h)
    \/ \E c \in Callers : extendUpdate(c)
    \/ \E c \in Callers : updateFails(c)
    \/ \E c \in Callers : cleanupCall(c)
    \/ \E c \in Callers : cleanupQuery(c)
    \/ \E c \in Callers : cleanupQueryFails(c)
    \/ \E c \in Callers : cleanupUpdate(c)
    \/ \E c \in Callers : Return(c)
    \/ Tick

\* the service as it runs: callers interleave at every await
ReqSpec == ReqInit /\ [][ReqNext]_vars

\* the same service when every method is awaited before the next is called
Active == {c \in Callers : call[c].pc \notin {"idle", "done"}}

ReqSeqNext == ReqNext /\ Cardinality(Active') <= 1

ReqSeqSpec == ReqInit /\ [][ReqSeqNext]_vars

----------------------------------------------------------------------------
(* JavaScript values the error code reads.  A string is the sequence of    *)
(* its characters, so that startsWith, includes and === are computed on    *)
(* the text itself.                                                        *)

Str(chars) == [t |-> "str", s |-> chars]
Undefined == [t |-> "undef", s |-> <<>>]

\* the string literals of errorHandler.ts and offlineManager.ts

str_auth == <<"a", "u", "t", "h", "/">>
str_firestore == <<"f", "i", "r", "e", "s", "t", "o", "r", "e", "/">>
str_NETWORK_ERROR == <<"N", "E", "T", "W", "O", "R", "K", "_", "E", "R", "R", "O", "R">>
str_TIMEOUT == <<"T", "I", "M", "E", "O", "U", "T">>
str_TIMEOUT_ERROR == <<"T", "I", "M", "E", "O", "U", "T", "_", "E", "R", "R", "O", "R">>
str_VALIDATION_ERROR == <<"V", "A", "L", "I", "D", "A", "T", "I", "O", "N", "_", "E", "R", "R", "O", "R">>
str_PERMISSION_ERROR == <<"P", "E", "R", "M", "I", "S", "S", "I", "O", "N", "_", "E", "R", "R", "O", "R">>
str_BUSINESS_ERROR == <<"B", "U", "S", "I", "N", "E", "S", "S", "_", "E", "R", "R", "O", "R">>
str_OFFLINE_ERROR == <<"O", "F", "F", "L", "I", "N", "E", "_", "E", "R", "R", "O", "R">>
str_firestore_unavailable == <<"f", "i", "r", "e", "s", "t", "o", "r", "e", "/", "u", "n", "a", "v", "a", "i", "l", "a", "b", "l", "e">>
str_firestore_deadline_exceeded == <<"f", "i", "r", "e", "s", "t", "o", "r", "e", "/", "d", "e", "a", "d", "l", "i", "n", "e", "-", "e", "x", "c", "e", "e", "d", "e", "d">>
str_firestore_resource_exhausted == <<"f", "i", "r", "e", "s", "t", "o", "r", "e", "/", "r", "e", "s", "o", "u", "r", "c", "e", "-", "e", "x", "h", "a", "u", "s", "t", "e", "d">>
str_auth_network_request_failed == <<"a", "u", "t", "h", "/", "n", "e", "t", "w", "o", "r", "k", "-", "r", "e", "q", "u", "e", "s", "t", "-", "f", "a", "i", "l", "e", "d">>
str_network == <<"n", "e", "t", "w", "o", "r", "k">>
str_timeout == <<"t", "i", "m", "e", "o", "u", "t">>
str_fetch == <<"f", "e", "t", "c", "h">>
str_offline_message == <<"O", "p", "e", "r", "a", "t", "i", "o", "n", " ", "r", "e", "q", "u", "i", "r", "e", "s", " ", "i", "n", "t", "e", "r", "n", "e", "t", " ", "c", "o", "n", "n", "e", "c", "t", "i", "o", "n">>

\* texts of failures the operations are made to throw

str_firestore_permission_denied == <<"f", "i", "r", "e", "s", "t", "o", "r", "e", "/", "p", "e", "r", "m", "i", "s", "s", "i", "o", "n", "-", "d", "e", "n", "i", "e", "d">>
str_E_CUSTOM == <<"E", "_", "C", "U", "S", "T", "O", "M">>
str_msg_fetch == <<"F", "a", "i", "l", "e", "d", " ", "t", "o", " ", "f", "e", "t", "c", "h">>
str_msg_network == <<"A", " ", "n", "e", "t", "w", "o", "r", "k", " ", "e", "r", "r", "o", "r", " ", "o", "c", "c", "u", "r", "r", "e", "d">>
str_msg_timeout == <<"t", "i", "m", "e", "o", "u", "t", " ", "o", "f", " ", "5", "0", "0", "0", "m", "s", " ", "e", "x", "c", "e", "e", "d", "e", "d">>
str_msg_plain == <<"Q", "u", "o", "t", "a", " ", "e", "x", "c", "e", "e", "d", "e", "d">>

\* value?.startsWith(prefix): undefined (falsy) when the value is undefined
startsWith(value, prefix) ==
    /\ value.t = "str"
    /\ Len(value.s) >= Len(prefix)
    /\ SubSeq(value.s, 1, Len(prefix)) = prefix

\* value?.includes(text) on a string
includes(value, text) ==
    /\ value.t = "str"
    /\ \E i \in 1..(Len(value.s) - Len(text) + 1) :
          SubSeq(value.s, i, i + Len(text) - 1) = text

\* value === 'literal'
equals(value, literal) == value.t = "str" /\ value.s = literal

\* [literals].includes(value)
oneOf(literals, value) == \E l \in literals : equals(value, l)

----------------------------------------------------------------------------
(* ErrorHandler *)

\* private isRetryableError(error)
isRetryableError(error) ==
    \/ oneOf({str_firestore_unavailable, str_firestore_deadline_exceeded,
              str_firestore_resource_exhausted, str_NETWORK_ERROR,
              str_TIMEOUT_ERROR}, error.code)
    \/ includes(error.message, str_network)
    \/ includes(error.message, str_timeout)

\* private categorizeError(error, context): the code of the AppError it returns
categorizeError(error) ==
    IF startsWith(error.code, str_auth) THEN "AUTH_ERROR"
    ELSE IF startsWith(error.code, str_firestore) THEN "FIRESTORE_ERROR"
    ELSE IF equals(error.code, str_NETWORK_ERROR)
            \/ includes(error.message, str_network) THEN "NETWORK_ERROR"
    ELSE IF equals(error.code, str_TIMEOUT)
            \/ includes(error.message, str_timeout) THEN "TIMEOUT_ERROR"
    ELSE IF equals(error.code, str_VALIDATION_ERROR) THEN "VALIDATION_ERROR"
    ELSE IF equals(error.code, str_PERMISSION_ERROR) THEN "PERMISSION_ERROR"
    ELSE IF equals(error.code, str_BUSINESS_ERROR) THEN "BUSINESS_ERROR"
    ELSE IF isRetryableError(error) THEN "RETRYABLE_ERROR"
    ELSE "UNKNOWN_ERROR"

\* the case labels of the two switch statements of categorizeError

str_auth_user_not_found == <<"a", "u", "t", "h", "/", "u", "s", "e", "r", "-", "n", "o", "t", "-", "f", "o", "u", "n", "d">>
str_auth_wrong_password == <<"a", "u", "t", "h", "/", "w", "r", "o", "n", "g", "-", "p", "a", "s", "s", "w", "o", "r", "d">>
str_auth_email_already_in_use == <<"a", "u", "t", "h", "/", "e", "m", "a", "i", "l", "-", "a", "l", "r", "e", "a", "d", "y", "-", "i", "n", "-", "u", "s", "e">>
str_auth_weak_password == <<"a", "u", "t", "h", "/", "w", "e", "a", "k", "-", "p", "a", "s", "s", "w", "o", "r", "d">>
str_auth_invalid_email == <<"a", "u", "t", "h", "/", "i", "n", "v", "a", "l", "i", "d", "-", "e", "m", "a", "i", "l">>
str_auth_too_many_requests == <<"a", "u", "t", "h", "/", "t", "o", "o", "-", "m", "a", "n", "y", "-", "r", "e", "q", "u", "e", "s", "t", "s">>
str_auth_user_disabled == <<"a", "u", "t", "h", "/", "u", "s", "e", "r", "-", "d", "i", "s", "a", "b", "l", "e", "d">>
str_auth_requires_recent_login == <<"a", "u", "t", "h", "/", "r", "e", "q", "u", "i", "r", "e", "s", "-", "r", "e", "c", "e", "n", "t", "-", "l", "o", "g", "i", "n">>
str_firestore_unauthenticated == <<"f", "i", "r", "e", "s", "t", "o", "r", "e", "/", "u", "n", "a", "u", "t", "h", "e", "n", "t", "i", "c", "a", "t", "e", "d">>
str_firestore_not_found == <<"f", "i", "r", "e", "s", "t", "o", "r", "e", "/", "n", "o", "t", "-", "f", "o", "u", "n", "d">>
str_firestore_failed_precondition == <<"f", "i", "r", "e", "s", "t", "o", "r", "e", "/", "f", "a", "i", "l", "e", "d", "-", "p", "r", "e", "c", "o", "n", "d", "i", "t", "i", "o", "n">>

\* a message: one of the literals of the code, or the message of the failure
Lit(text) == [lit |-> text, raw |-> Undefined]
Raw(value) == [lit |-> "", raw |-> value]

\* value is truthy: a non-empty string, or a number (the numbers tried are not 0)
truthy(value) == (value.t = "str" /\ value.s # <<>>) \/ value.t = "num"

\* value || 'text'
orLiteral(value, text) == IF truthy(value) THEN Raw(value) ELSE Lit(text)

\* switch (error.code) of the auth branch: label and message
authCases ==
    {<<str_auth_user_not_found, "No account found with this email address">>,
     <<str_auth_wrong_password, "Incorrect password">>,
     <<str_auth_email_already_in_use, "An account with this email already exists">>,
     <<str_auth_weak_password, "Password should be at least 6 characters">>,
     <<str_auth_invalid_email, "Invalid email address">>,
     <<str_auth_too_many_requests, "Too many failed attempts. Please try again later">>,
     <<str_auth_network_request_failed, "Network error. Please check your connection">>,
     <<str_auth_user_disabled, "This account has been disabled">>,
     <<str_auth_requires_recent_login, "Please sign in again to continue">>}

\* switch (error.code) of the firestore branch: label and message
firestoreCases ==
    {<<str_firestore_permission_denied, "You do not have permission to perform this action">>,
     <<str_firestore_unavailable, "Service temporarily unavailable. Please try again later">>,
     <<str_firestore_deadline_exceeded, "Request timed out. Please try again">>,
     <<str_firestore_resource_exhausted, "Too many requests. Please try again later">>,
     <<str_firestore_unauthenticated, "Please sign in to continue">>,
     <<str_firestore_not_found, "The requested resource was not found">>,
     <<str_firestore_failed_precondition, "Operation failed due to invalid state">>}

\* switch (error.code) { case ...: message = ...; default: message = fallback }
switchMessage(cases, code, fallback) ==
    IF \E c \in cases : equals(code, c[1])
    THEN Lit((CHOOSE c \in cases : equals(code, c[1]))[2])
    ELSE fallback

\* private categorizeError(error, context): the message of the AppError
categorizedMessage(error) ==
    IF startsWith(error.code, str_auth)
    THEN switchMessage(authCases, error.code,
                       orLiteral(error.message, "Authentication error"))
    ELSE IF startsWith(error.code, str_firestore)
    THEN switchMessage(firestoreCases, error.code,
                       orLiteral(error.message, "Database error"))
    ELSE IF equals(error.code, str_NETWORK_ERROR)
            \/ includes(error.message, str_network)
    THEN Lit("Network error. Please check your internet connection")
    ELSE IF equals(error.code, str_TIMEOUT)
            \/ includes(error.message, str_timeout)
    THEN Lit("Request timed out. Please try again")
    ELSE IF equals(error.code, str_VALIDATION_ERROR)
    THEN orLiteral(error.message, "Invalid input provided")
    ELSE IF equals(error.code, str_PERMISSION_ERROR)
    THEN orLiteral(error.message,
                   "You do not have permission to perform this action")
    ELSE IF equals(error.code, str_BUSINESS_ERROR)
    THEN orLiteral(error.message, "Operation not allowed")
    ELSE IF isRetryableError(error)
    THEN Lit("Temporary error. Will retry automatically")
    ELSE Lit("An unexpected error occurred")

\* handleError(error, context): the AppError returned (logging, the error
\* queue and reporting do not change it)
handleError(error) ==
    [code |-> categorizeError(error), message |-> categorizedMessage(error),
     details |-> error]

shouldRetry_NoTimeout(appError) ==
    appError.code \in {"RETRYABLE_ERROR", "NETWORK_ERROR"}

\* shouldRetry(error), on an AppError
shouldRetry(appError) ==
    appError.code \in {"RETRYABLE_ERROR", "NETWORK_ERROR", "TIMEOUT_ERROR"}

\* createOfflineError(message)
createOfflineError(message) ==
    [code |-> Str(str_OFFLINE_ERROR), message |-> Str(message)]

\* the failures an operation may throw: objects with a code and a message,
\* either of which may be absent
ErrorCodes ==
    {Undefined} \cup
    {Str(c) : c \in {str_NETWORK_ERROR, str_TIMEOUT_ERROR, str_TIMEOUT,
                     str_VALIDATION_ERROR, str_firestore_unavailable,
                     str_firestore_resource_exhausted,
                     str_firestore_permission_denied,
                     str_auth_network_request_failed, str_E_CUSTOM}}

ErrorMessages ==
    {Undefined} \cup
    {Str(m) : m \in {str_msg_fetch, str_msg_network, str_msg_timeout,
                     str_msg_plain}}

RawErrors == [code : ErrorCodes, message : ErrorMessages]

----------------------------------------------------------------------------
(* OfflineManager.  An operation o is the thunk one executeWithOfflineSupport *)
(* call passes in; when it is queued, o is also the id of its entry.  The     *)
(* clock moves from one timer deadline to the next; the one-second            *)
(* completion poll may run at any moment while its interval is set.           *)

\* setTimeout(..., 5 * 60 * 1000) of queueOperation
QueueTimeoutMs == 5 * 60 * 1000

RECURSIVE Pow2(_)
Pow2(n) == IF n = 0 THEN 1 ELSE 2 * Pow2(n - 1)

Min(a, b) == IF a < b THEN a ELSE b

\* executeQueuedOperation: Math.min(1000 * Math.pow(2, operation.retryCount), 30000)
queueRetryDelay(retryCount) == Min(1000 * Pow2(retryCount), 30000)

\* the values NetInfo reports for isConnected and isInternetReachable
NetValues == {"true", "false", "null"}

\* this.operationQueue.find(o => o.id === operationId)
InQueue(o) == \E i \in 1..Len(operationQueue) : operationQueue[i] = o

\* removeOperationFromQueue(operationId), on a queue
removeOperationFromQueue(queue, o) == SelectSeq(queue, LAMBDA q : q # o)

\* results.forEach(... removeOperationFromQueue(op.id)) over the fulfilled ones
removeFulfilled(queue, fulfilled) == SelectSeq(queue, LAMBDA q : q \notin fulfilled)

\* private isNetworkError(error)
isNetworkError(error) ==
    \/ oneOf({str_NETWORK_ERROR, str_TIMEOUT_ERROR, str_firestore_unavailable,
              str_firestore_deadline_exceeded, str_auth_network_request_failed},
             error.code)
    \/ includes(error.message, str_network)
    \/ includes(error.message, str_timeout)
    \/ includes(error.message, str_fetch)

\* the guard of processOperationQueue: return without draining
drainSkipped_NoGuard == Len(operationQueue) = 0

drainSkipped == isProcessingQueue \/ Len(operationQueue) = 0

\* queueOperation: push the entry, set the poll interval and the 5-minute timer
queueOperation(o, maxRetries) ==
    /\ entry' = [entry EXCEPT ![o] =
           [made |-> TRUE, timestamp |-> now, retryCount |-> 0,
            maxRetries |-> maxRetries, interval |-> TRUE, timeout |-> TRUE]]
    /\ operationQueue' = Append(operationQueue, o)

\* the catch block of executeQueuedOperation: count the failure, then schedule
\* a retry or drop the entry
retryScheduled_OneMore(o) == entry[o].retryCount + 1 <= entry[o].maxRetries + 1

retryScheduled(o) == entry[o].retryCount + 1 <= entry[o].maxRetries

entryAfter(o, ok) ==
    IF ok THEN entry ELSE [entry EXCEPT ![o].retryCount = @ + 1]

timersAfter(o, ok) ==
    IF ~ok /\ retryScheduled(o)
    THEN retryTimers \cup
         {[op |-> o, due |-> now + queueRetryDelay(entry[o].retryCount + 1)]}
    ELSE retryTimers

queueAfter(o, ok) ==
    IF ~ok /\ ~retryScheduled(o)
    THEN removeOperationFromQueue(operationQueue, o)
    ELSE operationQueue

\* the tests of handleNetworkStateChange that call the transition handlers
goesOnline_Level(wasOffline, isOffline) == ~isOffline

goesOnline(wasOffline, isOffline) == wasOffline /\ ~isOffline

goesOffline(wasOffline, isOffline) == ~wasOffline /\ isOffline

\* handleNetworkStateChange(state); handleOfflineTransition only switches the
\* database client's network off
handleNetworkStateChange(isConnected, isInternetReachable) ==
    LET newOfflineState ==
            [isConnected |-> isConnected = "true",
             isInternetReachable |-> isInternetReachable = "true",
             isOfflineMode |-> isConnected # "true" \/ isInternetReachable # "true"]
        wasOffline == offlineState.isOfflineMode
    IN /\ offlineState' = newOfflineState
       /\ IF goesOnline(wasOffline, newOfflineState.isOfflineMode)
          THEN /\ onlineHooks < MaxHooks
               /\ onlineHooks' = onlineHooks + 1
               /\ hookCalled' = "handleOnlineTransition"
          ELSE IF goesOffline(wasOffline, newOfflineState.isOfflineMode)
          THEN /\ hookCalled' = "handleOfflineTransition"
               /\ UNCHANGED onlineHooks
          ELSE /\ hookCalled' = "none"
               /\ UNCHANGED onlineHooks
       /\ UNCHANGED <<now, notOffVars, operationQueue, isProcessingQueue, entry, exec,
                      thunk, drains, lastDrainRequest, retryTimers>>

\* handleOnlineTransition after await disableOfflineMode(): processOperationQueue
\* up to await Promise.allSettled, every queued operation invoked
processOperationQueue ==
    /\ onlineHooks > 0
    /\ onlineHooks' = onlineHooks - 1
    /\ IF drainSkipped
       THEN /\ lastDrainRequest' =
                   IF Len(drains) > 0 THEN "dropped" ELSE lastDrainRequest
            /\ UNCHANGED <<isProcessingQueue, drains, thunk>>
       ELSE /\ UNCHANGED lastDrainRequest
            /\ isProcessingQueue' = TRUE
            /\ drains' = Append(drains,
                   [operations |-> operationQueue,
                    unsettled |-> {o \in Ops : InQueue(o)}])
            /\ thunk' = [o \in Ops |->
                   IF InQueue(o) THEN [thunk[o] EXCEPT !.invoked = @ + 1]
                   ELSE thunk[o]]
    /\ UNCHANGED <<now, notOffVars, hookCalled, offlineState, operationQueue, entry, exec,
                   retryTimers>>

\* an operation invoked by drain i settles: executeQueuedOperation finishes,
\* and with the last one processOperationQueue removes the fulfilled entries
drainSettles(i, o, ok) ==
    /\ i \in 1..Len(drains) /\ o \in drains[i].unsettled
    /\ thunk' = [thunk EXCEPT ![o].succeeded = @ \/ ok]
    /\ entry' = entryAfter(o, ok)
    /\ retryTimers' = timersAfter(o, ok)
    /\ IF drains[i].unsettled = {o}
       THEN /\ operationQueue' =
                   removeFulfilled(queueAfter(o, ok),
                       {drains[i].operations[k] : k \in 1..Len(drains[i].operations)})
            /\ drains' = SubSeq(drains, 1, i - 1) \o SubSeq(drains, i + 1, Len(drains))
            /\ isProcessingQueue' = FALSE
            /\ lastDrainRequest' = "none"
       ELSE /\ operationQueue' = queueAfter(o, ok)
            /\ drains' = [drains EXCEPT ![i].unsettled = @ \ {o}]
            /\ UNCHANGED <<isProcessingQueue, lastDrainRequest>>
    /\ UNCHANGED <<now, notOffVars, hookCalled, offlineState, exec, onlineHooks>>

\* a retry timer fires: executeQueuedOperation(operation) invokes the operation
retryTimerFires(t) ==
    /\ t \in retryTimers /\ t.due <= now
    /\ retryTimers' = retryTimers \ {t}
    /\ thunk' = [thunk EXCEPT ![t.op].invoked = @ + 1, ![t.op].running = @ + 1]
    /\ UNCHANGED <<now, notOffVars, hookCalled, offlineState, operationQueue, isProcessingQueue,
                   entry, exec, onlineHooks, drains, lastDrainRequest>>

\* an operation invoked by a retry timer settles
retrySettles(o, ok) ==
    /\ thunk[o].running > 0
    /\ thunk' = [thunk EXCEPT ![o].running = @ - 1, ![o].succeeded = @ \/ ok]
    /\ entry' = entryAfter(o, ok)
    /\ retryTimers' = timersAfter(o, ok)
    /\ operationQueue' = queueAfter(o, ok)
    /\ UNCHANGED <<now, notOffVars, hookCalled, offlineState, isProcessingQueue, exec, onlineHooks,
                   drains, lastDrainRequest>>

\* executeWithOfflineSupport(operation, context, { queueOnOffline, maxRetries })
\* up to its first await
executeWithOfflineSupport(o, queueOnOffline, maxRetries) ==
    /\ exec[o].via = "none"
    /\ IF ~offlineState.isOfflineMode
       THEN /\ exec' = [exec EXCEPT ![o] =
                   [via |-> "direct", queueOnOffline |-> queueOnOffline,
                    maxRetries |-> maxRetries, promise |-> "pending",
                    with |-> "none"]]
            /\ thunk' = [thunk EXCEPT ![o].invoked = @ + 1]
            /\ UNCHANGED <<entry, operationQueue>>
       ELSE IF queueOnOffline
       THEN /\ exec' = [exec EXCEPT ![o] =
                   [via |-> "queuedOffline", queueOnOffline |-> queueOnOffline,
                    maxRetries |-> maxRetries, promise |-> "pending",
                    with |-> "none"]]
            /\ queueOperation(o, maxRetries)
            /\ UNCHANGED thunk
       ELSE /\ exec' = [exec EXCEPT ![o] =
                   [via |-> "refused", queueOnOffline |-> queueOnOffline,
                    maxRetries |-> maxRetries, promise |-> "rejected",
                    with |-> handleError(createOfflineError(str_offline_message)).code]]
            /\ UNCHANGED <<entry, operationQueue, thunk>>
    /\ UNCHANGED <<now, notOffVars, hookCalled, offlineState, isProcessingQueue, onlineHooks, drains,
                   lastDrainRequest, retryTimers>>

\* return await operation() returns
directSucceeds(o) ==
    /\ exec[o].via = "direct"
    /\ exec' = [exec EXCEPT ![o].via = "returned", ![o].promise = "resolved",
                            ![o].with = "result"]
    /\ thunk' = [thunk EXCEPT ![o].succeeded = TRUE]
    /\ UNCHANGED <<now, notOffVars, hookCalled, offlineState, operationQueue, isProcessingQueue,
                   entry, onlineHooks, drains, lastDrainRequest, retryTimers>>

\* await operation() throws error: the catch block of executeWithOfflineSupport
directFails(o, error) ==
    /\ exec[o].via = "direct"
    /\ IF exec[o].queueOnOffline /\ isNetworkError(error)
       THEN /\ exec' = [exec EXCEPT ![o].via = "queuedOnFailure"]
            /\ queueOperation(o, exec[o].maxRetries)
       ELSE /\ exec' = [exec EXCEPT ![o].via = "threw", ![o].promise = "rejected",
                                    ![o].with = "thrown"]
            /\ UNCHANGED <<entry, operationQueue>>
    /\ UNCHANGED <<now, notOffVars, hookCalled, offlineState, isProcessingQueue, thunk, onlineHooks,
                   drains, lastDrainRequest, retryTimers>>

\* checkCompletion, run by setInterval: resolve once the entry is not queued
checkCompletion(o) ==
    /\ entry[o].interval /\ ~InQueue(o)
    /\ exec[o].promise = "pending"
    /\ exec' = [exec EXCEPT ![o].promise = "resolved", ![o].with = "undefined"]
    /\ UNCHANGED <<now, notOffVars, hookCalled, offlineState, operationQueue, isProcessingQueue,
                   entry, thunk, onlineHooks, drains, lastDrainRequest, retryTimers>>

\* the 5-minute timer of queueOperation: clearInterval, reject if still queued
queueTimeout(o) ==
    /\ entry[o].timeout /\ now >= entry[o].timestamp + QueueTimeoutMs
    /\ entry' = [entry EXCEPT ![o].interval = FALSE, ![o].timeout = FALSE]
    /\ IF InQueue(o) /\ exec[o].promise = "pending"
       THEN exec' = [exec EXCEPT ![o].promise = "rejected",
                                 ![o].with = "Operation timed out while queued"]
       ELSE UNCHANGED exec
    /\ UNCHANGED <<now, notOffVars, hookCalled, offlineState, operationQueue, isProcessingQueue,
                   thunk, onlineHooks, drains, lastDrainRequest, retryTimers>>

\* the deadlines of the timers that are set
Deadlines ==
    {t.due : t \in retryTimers} \cup
    {entry[o].timestamp + QueueTimeoutMs : o \in {q \in Ops : entry[q].timeout}}

\* time passes until the next timer is due
Advance ==
    /\ Deadlines # {}
    /\ \A d \in Deadlines : d > now
    /\ now' = CHOOSE d \in Deadlines : \A e \in Deadlines : d <= e
    /\ UNCHANGED <<reqVars, offVars, errVars, storeVars, firestoreNetwork, ruleVars>>

OffInit ==
    /\ now = 0
    /\ ReqStart
    /\ OffStart
    /\ ErrStart
    /\ StoreStart
    /\ NetStart
    /\ RuleStart

OffNext ==
    \/ \E c \in NetValues, r \in NetValues : handleNetworkStateChange(c, r)
    \/ processOperationQueue
    \/ \E i \in 1..Len(drains), o \in Ops, ok \in BOOLEAN : drainSettles(i, o, ok)
    \/ \E t \in retryTimers : retryTimerFires(t)
    \/ \E o \in Ops, ok \in BOOLEAN : retrySettles(o, ok)
    \/ \E o \in Ops, q \in BOOLEAN : executeWithOfflineSupport(o, q, MaxRetriesArg)
    \/ \E o \in Ops : directSucceeds(o)
    \/ \E o \in Ops, e \in RawErrors : directFails(o, e)
    \/ \E o \in Ops : checkCompletion(o)
    \/ \E o \in Ops : queueTimeout(o)
    \/ Advance

OffSpec == OffInit /\ [][OffNext]_vars

----------------------------------------------------------------------------
(* OfflineManager with the database client.  The transition handlers run    *)
(* up to their first await in the step that calls them, so enableNetwork /  *)
(* disableNetwork is requested in the order of the state changes; the       *)
(* client works its requests off one at a time.                             *)

\* the request the client works off next: the oldest
nextToSettle_Latest(pending) == Len(pending)

nextToSettle(pending) == 1

\* handleNetworkStateChange(state) as in OffSpec, and the call that
\* disableOfflineMode() / enableOfflineMode() makes on the client
connectivityChange(isConnected, isInternetReachable) ==
    LET isOffline == isConnected # "true" \/ isInternetReachable # "true"
        wasOffline == offlineState.isOfflineMode
        requested ==
            IF goesOnline(wasOffline, isOffline) THEN <<"enableNetwork">>
            ELSE IF goesOffline(wasOffline, isOffline) THEN <<"disableNetwork">>
            ELSE <<>>
    IN /\ Len(firestoreNetwork.pending) + Len(requested) <= MaxPending
       /\ IF goesOnline(wasOffline, isOffline)
          THEN onlineHooks < MaxHooks /\ onlineHooks' = onlineHooks + 1
          ELSE UNCHANGED onlineHooks
       /\ offlineState' = [isConnected |-> isConnected = "true",
                           isInternetReachable |-> isInternetReachable = "true",
                           isOfflineMode |-> isOffline]
       /\ hookCalled' =
             IF goesOnline(wasOffline, isOffline) THEN "handleOnlineTransition"
             ELSE IF goesOffline(wasOffline, isOffline)
             THEN "handleOfflineTransition" ELSE "none"
       /\ firestoreNetwork' = [firestoreNetwork EXCEPT !.pending = @ \o requested]
       /\ UNCHANGED <<now, reqVars, errVars, storeVars, ruleVars, operationQueue,
                      isProcessingQueue, entry, exec, thunk, drains,
                      lastDrainRequest, retryTimers>>

\* await enableNetwork(firestore) / await disableNetwork(firestore) settles;
\* handleOnlineTransition then goes on to processOperationQueue
clientSettles ==
    /\ firestoreNetwork.pending # <<>>
    /\ LET i == nextToSettle(firestoreNetwork.pending)
       IN firestoreNetwork' =
             [enabled |-> firestoreNetwork.pending[i] = "enableNetwork",
              pending |-> SubSeq(firestoreNetwork.pending, 1, i - 1) \o
                          SubSeq(firestoreNetwork.pending, i + 1,
                                 Len(firestoreNetwork.pending))]
    /\ UNCHANGED <<now, reqVars, offVars, errVars, storeVars, ruleVars>>

NetNext ==
    \/ \E c \in NetValues, r \in NetValues : connectivityChange(c, r)
    \/ clientSettles
    \/ processOperationQueue

NetSpec == OffInit /\ [][NetNext]_vars

----------------------------------------------------------------------------
(* ErrorHandler as its clients call it: the public methods applied to       *)
(* arguments, and the withRetry loop around an operation.                   *)

\* values a caller can throw or pass that are not strings
Null == [t |-> "null", s |-> <<>>]
NumberValue == [t |-> "num", s |-> <<>>]

\* typeof error === 'object' && error !== null, for the values tried
isObject(value) == "code" \in DOMAIN value

\* failure objects whose code or message is a number
MalformedErrors ==
    [code : {NumberValue}, message : ErrorMessages] \cup
    [code : {Undefined, Str(str_E_CUSTOM), Str(str_NETWORK_ERROR)},
     message : {NumberValue}]

\* what an operation may throw, and a client may pass to handleError
ThrownValues == RawErrors \cup MalformedErrors \cup {Null, Undefined}

\* categorizeError raises a TypeError: error.code read on null or undefined,
\* error.code?.startsWith on a number, error.message?.includes on a number
\* once the auth, firestore and NETWORK_ERROR tests have failed
throwsTypeError(error) ==
    \/ ~isObject(error)
    \/ error.code.t = "num"
    \/ /\ ~startsWith(error.code, str_auth)
       /\ ~startsWith(error.code, str_firestore)
       /\ ~equals(error.code, str_NETWORK_ERROR)
       /\ error.message.t = "num"

\* errorHandler.handleError(error, context) as the caller sees it
tryHandleError(error) ==
    IF throwsTypeError(error)
    THEN [outcome |-> "TypeError", code |-> "none"]
    ELSE [outcome |-> "returned", code |-> handleError(error).code]

\* Math.random() * 1000, in whole milliseconds
Jitters == {0, 999}

getRetryDelay_Uncapped(appError, attempt, jitter) ==
    1000 * Pow2(attempt) + jitter

\* getRetryDelay(error, attempt), with the value Math.random() gave
getRetryDelay(appError, attempt, jitter) ==
    Min(1000 * Pow2(attempt), 30000) + jitter

\* the codes categorizeError assigns
ClassifierCodes ==
    {"AUTH_ERROR", "FIRESTORE_ERROR", "NETWORK_ERROR", "TIMEOUT_ERROR",
     "VALIDATION_ERROR", "PERMISSION_ERROR", "BUSINESS_ERROR",
     "RETRYABLE_ERROR", "UNKNOWN_ERROR"}

\* the keys of friendlyMessages
friendlyMessages ==
    {"AUTH_ERROR", "FIRESTORE_ERROR", "NETWORK_ERROR", "TIMEOUT_ERROR",
     "VALIDATION_ERROR", "PERMISSION_ERROR", "BUSINESS_ERROR",
     "RETRYABLE_ERROR", "UNKNOWN_ERROR"}

\* getUserFriendlyMessage(error): friendlyMessages[error.code] || error.message
getUserFriendlyMessage(appError) ==
    IF appError.code \in friendlyMessages
    THEN [key |-> appError.code, text |-> Undefined]
    ELSE [key |-> "none", text |-> appError.message]

\* AppError objects (code: string, message: string) a client may hold: the
\* classifier's, createOfflineError's, and one with a code of its own
AppErrors ==
    [code : ClassifierCodes \cup {"OFFLINE_ERROR", "E_CUSTOM"},
     message : {Str(str_offline_message), Str(str_msg_plain)}]

\* the AppErrors handleError returns for well-formed failures
ClassifiedErrors == {handleError(e) : e \in RawErrors}

handleErrorCall(value) ==
    /\ lastCall' = [fn |-> "handleError", arg |-> value, attempt |-> 0,
                    jitter |-> 0, result |-> tryHandleError(value)]
    /\ UNCHANGED <<now, notErrVars, retry>>

shouldRetryCall(appError) ==
    /\ lastCall' = [fn |-> "shouldRetry", arg |-> appError, attempt |-> 0,
                    jitter |-> 0, result |-> shouldRetry(appError)]
    /\ UNCHANGED <<now, notErrVars, retry>>

getRetryDelayCall(appError, attempt, jitter) ==
    /\ lastCall' = [fn |-> "getRetryDelay", arg |-> appError, attempt |-> attempt,
                    jitter |-> jitter,
                    result |-> getRetryDelay(appError, attempt, jitter)]
    /\ UNCHANGED <<now, notErrVars, retry>>

getUserFriendlyMessageCall(appError) ==
    /\ lastCall' = [fn |-> "getUserFriendlyMessage", arg |-> appError,
                    attempt |-> 0, jitter |-> 0,
                    result |-> getUserFriendlyMessage(appError)]
    /\ UNCHANGED <<now, notErrVars, retry>>

\* the test that ends the loop of withRetry on a failure
lastAttempt_OneEarlier(attempt, maxRetries) == attempt + 1 >= maxRetries

lastAttempt(attempt, maxRetries) == attempt = maxRetries

\* withRetry(operation, maxRetries, context) up to the first await operation()
withRetry(maxRetries) ==
    /\ retry.pc = "idle"
    /\ retry' = [retry EXCEPT !.pc = "calling", !.maxRetries = maxRetries,
                              !.attempt = 0, !.invoked = 1]
    /\ UNCHANGED <<now, notErrVars, lastCall>>

\* return await operation()
operationReturns ==
    /\ retry.pc = "calling"
    /\ retry' = [retry EXCEPT !.pc = "returned", !.outcome = "result"]
    /\ UNCHANGED <<now, notErrVars, lastCall>>

\* await operation() throws error: the catch block of withRetry
operationThrows(error, jitter) ==
    /\ retry.pc = "calling"
    /\ IF throwsTypeError(error)
       THEN retry' = [retry EXCEPT !.pc = "rejected", !.outcome = "TypeError",
                                   !.failures = Append(@, "TypeError")]
       ELSE LET appError == handleError(error)
            IN IF lastAttempt(retry.attempt, retry.maxRetries)
                  \/ ~shouldRetry(appError)
               THEN retry' = [retry EXCEPT !.pc = "rejected",
                                           !.outcome = appError.code,
                                           !.failures = Append(@, appError.code)]
               ELSE retry' = [retry EXCEPT
                       !.pc = "waiting",
                       !.failures = Append(@, appError.code),
                       !.waited = Append(@,
                           getRetryDelay(appError, retry.attempt, jitter))]
    /\ UNCHANGED <<now, notErrVars, lastCall>>

\* the setTimeout of withRetry fires: attempt++ and the next await operation()
retryDelayElapses ==
    /\ retry.pc = "waiting"
    /\ now' = now + retry.waited[Len(retry.waited)]
    /\ retry' = [retry EXCEPT !.pc = "calling", !.attempt = @ + 1,
                              !.invoked = @ + 1]
    /\ UNCHANGED <<notErrVars, lastCall>>

ErrInit ==
    /\ now = 0
    /\ ReqStart
    /\ OffStart
    /\ ErrStart
    /\ StoreStart
    /\ NetStart
    /\ RuleStart

\* the methods of the ErrorHandler, called one after another
ErrNext ==
    \/ \E v \in ThrownValues : handleErrorCall(v)
    \/ \E a \in AppErrors \cup ClassifiedErrors : shouldRetryCall(a)
    \/ \E a \in AppErrors, n \in 0..MaxAttemptIndex, j \in Jitters :
          getRetryDelayCall(a, n, j)
    \/ \E a \in AppErrors : getUserFriendlyMessageCall(a)

ErrSpec == ErrInit /\ [][ErrNext]_vars

\* one withRetry call around an operation that returns or throws
RetryNext ==
    \/ \E m \in 0..MaxWithRetries : withRetry(m)
    \/ operationReturns
    \/ \E v \in ThrownValues, j \in Jitters : operationThrows(v, j)
    \/ retryDelayElapses

RetrySpec == ErrInit /\ [][RetryNext]_vars

----------------------------------------------------------------------------
(* BaseService: how its operations end.  Each operation awaits the database *)
(* provider inside try; the catch block returns this.handleError(error).    *)

BaseOps == {"create", "getById", "update", "delete", "query"}

\* protected handleError(error) of BaseService, as the caller of the
\* operation sees it: error.code is read first, then error.message
BaseService_handleError(error) ==
    IF ~isObject(error)
    THEN [outcome |-> "TypeError", caught |-> TRUE, success |-> FALSE,
          error |-> Lit("")]
    ELSE [outcome |-> "returned", caught |-> TRUE, success |-> FALSE,
          error |-> orLiteral(error.message, "An unexpected error occurred")]

\* the provider call of operation op throws error
providerThrows(op, error) ==
    /\ lastCall' = [fn |-> op, arg |-> error, attempt |-> 0, jitter |-> 0,
                    result |-> BaseService_handleError(error)]
    /\ UNCHANGED <<now, notErrVars, retry>>

\* the provider call of operation op returns; getById may find no document
providerReturns(op, exists) ==
    /\ exists \/ op = "getById"
    /\ lastCall' = [fn |-> op, arg |-> Undefined, attempt |-> 0, jitter |-> 0,
                    result |-> [outcome |-> "returned", caught |-> FALSE,
                                success |-> exists,
                                error |-> IF exists THEN Lit("")
                                          ELSE Lit("Document not found")]]
    /\ UNCHANGED <<now, notErrVars, retry>>

\* the error callback given to onSnapshot by subscribeToDocument or
\* subscribeToCollection runs
listenerError(subscription) ==
    /\ lastCall' = [fn |-> subscription, arg |-> Undefined, attempt |-> 0,
                    jitter |-> 0,
                    result |-> [delivered |->
                        IF subscription = "subscribeToDocument"
                        THEN "null" ELSE "[]"]]
    /\ UNCHANGED <<now, notErrVars, retry>>

BaseNext ==
    \/ \E op \in BaseOps, v \in ThrownValues : providerThrows(op, v)
    \/ \E op \in BaseOps, exists \in BOOLEAN : providerReturns(op, exists)
    \/ \E sub \in {"subscribeToDocument", "subscribeToCollection"} :
          listenerError(sub)

BaseSpec == ErrInit /\ [][BaseNext]_vars

----------------------------------------------------------------------------
(* useAppStore (the state cache) and the signOut of the useAuth hook.  A    *)
(* listener is named by the initializeSubscriptions call that registered it *)
(* and by the slot of the subscriptions object it was stored under.         *)

\* the users that sign in: one with a familyId, one without
Users == {[id |-> 1, familyId |-> 1], [id |-> 2, familyId |-> 0]}

\* the keys of Store.subscriptions
Kinds == {"family", "devices", "rules", "requests", "notifications"}

\* the snapshots a collection listener delivers
Snapshots == {{}, {1}}

\* cleanupSubscriptions: the state it sets (every stored handle is called first)
cleanupSubscriptions(s) == [s EXCEPT !.subscriptions = {}]

\* the body of initializeSubscriptions' microtask: the handles it obtains
newSubscriptions(task) ==
    {[n |-> task.n, kind |-> k, familyId |-> task.familyId] :
        k \in IF task.familyId # 0 THEN Kinds ELSE {"notifications"}}

\* set({ user: null, family: null, devices: [], ..., subscriptions: {} }) of signOut
signedOutState(s) ==
    [s EXCEPT !.user = NoUser, !.family = 0, !.devices = {}, !.rules = {},
              !.requests = {}, !.notifications = {}, !.subscriptions = {}]

\* setUser(user), called by signIn / signUp and by the onAuthStateChange
\* listener: with a user initializeSubscriptions(user.id, user.familyId) cleans
\* up and defers the subscribing to a microtask, without one cleanupSubscriptions
setUser(user) ==
    /\ IF user # NoUser
       THEN /\ initTasks.calls < MaxLogins
            /\ initTasks' =
                  [calls |-> initTasks.calls + 1,
                   pending |-> Append(initTasks.pending,
                       [n |-> initTasks.calls + 1, userId |-> user.id,
                        familyId |-> user.familyId])]
            /\ lastLogout' = "none"
       ELSE UNCHANGED <<initTasks, lastLogout>>
    /\ store' = cleanupSubscriptions([store EXCEPT !.user = user])
    /\ listeners' = listeners \ store.subscriptions
    /\ UNCHANGED <<now, notStoreVars, signOuts>>

\* the microtask of initializeSubscriptions runs: subscribe, then
\* set({ subscriptions: newSubscriptions }); when the import fails the catch
\* handler reports SUBSCRIPTION_ERROR
subscriptionsInitialized(imported) ==
    /\ initTasks.pending # <<>>
    /\ initTasks' = [initTasks EXCEPT !.pending = Tail(@)]
    /\ IF imported
       THEN /\ listeners' = listeners \cup newSubscriptions(Head(initTasks.pending))
            /\ store' = [store EXCEPT
                  !.subscriptions = newSubscriptions(Head(initTasks.pending))]
       ELSE /\ store' = [store EXCEPT !.error = "SUBSCRIPTION_ERROR"]
            /\ UNCHANGED listeners
    /\ UNCHANGED <<now, notStoreVars, signOuts, lastLogout>>

\* a live family listener fires: if (family) set({ family })
familyUpdated(h, family) ==
    /\ h \in listeners
    /\ h.kind = "family"
    /\ store' = IF family # 0 THEN [store EXCEPT !.family = family] ELSE store
    /\ UNCHANGED <<now, notStoreVars, listeners, initTasks, signOuts, lastLogout>>

\* a live collection listener fires: set({ devices }) and the like
collectionUpdated(h, data) ==
    /\ h \in listeners
    /\ h.kind # "family"
    /\ store' = CASE h.kind = "devices" -> [store EXCEPT !.devices = data]
                  [] h.kind = "rules" -> [store EXCEPT !.rules = data]
                  [] h.kind = "requests" -> [store EXCEPT !.requests = data]
                  [] OTHER -> [store EXCEPT !.notifications = data]
    /\ UNCHANGED <<now, notStoreVars, listeners, initTasks, signOuts, lastLogout>>

\* the store's signOut up to await authService.signOut()
store_signOut ==
    /\ "store.signOut" \notin signOuts
    /\ signOuts' = signOuts \cup {"store.signOut"}
    /\ store' = cleanupSubscriptions(store)
    /\ listeners' = listeners \ store.subscriptions
    /\ UNCHANGED <<now, notStoreVars, initTasks, lastLogout>>

\* authService.signOut() settles in the store's signOut: the final set(...),
\* or the rejection leaves the method
store_signOut_settles(resolved) ==
    /\ "store.signOut" \in signOuts
    /\ signOuts' = signOuts \ {"store.signOut"}
    /\ IF resolved
       THEN /\ store' = signedOutState(store)
            /\ lastLogout' = "store.signOut"
       ELSE UNCHANGED <<store, lastLogout>>
    /\ UNCHANGED <<now, notStoreVars, listeners, initTasks>>

\* useAuth's signOut up to await authService.signOut(): setLoading(true)
useAuth_signOut ==
    /\ "useAuth.signOut" \notin signOuts
    /\ signOuts' = signOuts \cup {"useAuth.signOut"}
    /\ store' = [store EXCEPT !.isLoading = TRUE]
    /\ UNCHANGED <<now, notStoreVars, listeners, initTasks, lastLogout>>

\* authService.signOut() settles in useAuth's signOut: setUser(null), or the
\* catch block's setError; finally setLoading(false)
useAuth_signOut_settles(resolved) ==
    /\ "useAuth.signOut" \in signOuts
    /\ signOuts' = signOuts \ {"useAuth.signOut"}
    /\ IF resolved
       THEN /\ store' = [cleanupSubscriptions([store EXCEPT !.user = NoUser])
                            EXCEPT !.isLoading = FALSE]
            /\ listeners' = listeners \ store.subscriptions
            /\ lastLogout' = "useAuth.signOut"
       ELSE /\ store' = [store EXCEPT !.error = "SIGN_OUT_ERROR",
                                      !.isLoading = FALSE]
            /\ UNCHANGED <<listeners, lastLogout>>
    /\ UNCHANGED <<now, notStoreVars, initTasks>>

StoreInit ==
    /\ now = 0
    /\ ReqStart
    /\ OffStart
    /\ ErrStart
    /\ StoreStart
    /\ NetStart
    /\ RuleStart

StoreNext ==
    \/ \E user \in Users \cup {NoUser} : setUser(user)
    \/ \E imported \in BOOLEAN : subscriptionsInitialized(imported)
    \/ \E h \in listeners, family \in {0, 1} : familyUpdated(h, family)
    \/ \E h \in listeners, data \in Snapshots : collectionUpdated(h, data)
    \/ store_signOut
    \/ \E resolved \in BOOLEAN : store_signOut_settles(resolved)
    \/ useAuth_signOut
    \/ \E resolved \in BOOLEAN : useAuth_signOut_settles(resolved)

StoreSpec == StoreInit /\ [][StoreNext]_vars

----------------------------------------------------------------------------
(* RuleService, on the one rule document its ruleId names.  A method that   *)
(* reads and then updates is one action up to the update and one for the    *)
(* update.                                                                  *)

\* the users a rule may name
RuleUsers == {1, 2}

\* rule.data.targetUserIds.filter(id => id !== userId)
withoutUser(targetUserIds, userId) ==
    SelectSeq(targetUserIds, LAMBDA id : id # userId)

\* the fields removeTargetUser writes: setActive(ruleId, false) when nobody
\* is left, else the filtered list
removeFields(targetUserIds, userId) ==
    IF Len(withoutUser(targetUserIds, userId)) = 0
    THEN [isActive |-> FALSE]
    ELSE [targetUserIds |-> withoutUser(targetUserIds, userId)]

\* createRule(..., targetUserIds, ...): isActive true
createRule(targetUserIds) ==
    /\ ~rule.exists
    /\ rule' = [exists |-> TRUE, targetUserIds |-> targetUserIds, isActive |-> TRUE]
    /\ UNCHANGED <<now, notRuleVars, ruleCall>>

\* addTargetUser / removeTargetUser up to the update: getById returned the rule
ruleRead(c, op, userId) ==
    /\ ruleCall[c].pc = "idle" /\ rule.exists
    /\ op = "addTargetUser" => Len(rule.targetUserIds) < MaxTargets
    /\ ruleCall' = [ruleCall EXCEPT ![c] =
           [pc |-> "read", op |-> op, userId |-> userId,
            fields |-> IF op = "addTargetUser"
                       THEN [targetUserIds |-> Append(rule.targetUserIds, userId)]
                       ELSE removeFields(rule.targetUserIds, userId),
            result |-> "none"]]
    /\ UNCHANGED <<now, notRuleVars, rule>>

\* the update of the method lands and the method returns success, or the
\* update throws and handleError returns a failure
ruleUpdate(c, ok) ==
    /\ ruleCall[c].pc = "read"
    /\ rule' =
          IF ~ok THEN rule
          ELSE [exists |-> TRUE,
                targetUserIds |-> IF "targetUserIds" \in DOMAIN ruleCall[c].fields
                                  THEN ruleCall[c].fields.targetUserIds
                                  ELSE rule.targetUserIds,
                isActive |-> IF "isActive" \in DOMAIN ruleCall[c].fields
                             THEN ruleCall[c].fields.isActive ELSE rule.isActive]
    /\ ruleCall' = [ruleCall EXCEPT ![c].pc = "done", ![c].fields = <<>>,
                                    ![c].result = IF ok THEN "ok" ELSE "fail"]
    /\ UNCHANGED <<now, notRuleVars>>

\* the caller takes the result; it may call again
ruleReturn(c) ==
    /\ ruleCall[c].pc = "done"
    /\ ruleCall' = [ruleCall EXCEPT ![c] = NoRuleCall]
    /\ UNCHANGED <<now, notRuleVars, rule>>

RuleNext ==
    \/ \E ids \in {<<1>>, <<1, 2>>} : createRule(ids)
    \/ \E c \in Callers, op \in {"addTargetUser", "removeTargetUser"},
          u \in RuleUsers : ruleRead(c, op, u)
    \/ \E c \in Callers, ok \in BOOLEAN : ruleUpdate(c, ok)
    \/ \E c \in Callers : ruleReturn(c)

RuleSpec == OffInit /\ [][RuleNext]_vars

----------------------------------------------------------------------------
(* Request lifecycle: properties *)

HasDecision(approvals, d) ==
    \E i \in 1..Len(approvals) : approvals[i].decision = d

\* C1: at every moment the stored status agrees with the stored approvals:
\* denied iff some approval denies, approved iff none denies and some
\* approves, pending or expired iff there are no approvals.
C1_StatusAgreesWithApprovals ==
    request.exists =>
        LET a == request.approvals
            s == request.status
        IN /\ (s = "denied") <=> HasDecision(a, "deny")
           /\ (s = "approved") <=> (~HasDecision(a, "deny") /\ HasDecision(a, "approve"))
           /\ (s \in {"pending", "expired"}) <=> (a = <<>>)

\* C2: once a request is approved, denied or expired, no step changes its status.
C2_TerminalIsFinal ==
    [][(request.exists /\ request.status \in Terminal)
           => request'.status = request.status]_vars

\* C3: when decisions are applied one after another, a request on which a
\* deny has been applied is denied, whatever approves came before or after.
C3_DenyPrecedence ==
    HasDecision(decisionLog, "deny") => request.status = "denied"

\* a deny followed by a later approve, both applied and stored
C3_Witness ==
    /\ decisionLog = <<Approval("deny"), Approval("approve")>>
    /\ request.approvals = decisionLog

\* two decisions by different callers that both returned success after
\* reading the same approvals list
Raced(c, d) ==
    /\ c # d
    /\ call[c].pc = "done" /\ call[d].pc = "done"
    /\ call[c].result = "ok" /\ call[d].result = "ok"
    /\ call[c].op \in Decisions /\ call[d].op \in Decisions
    /\ call[c].approvals = call[d].approvals

\* C4: when two parents' decisions both read the approvals before either
\* writes, a decision is missing from the stored list (it is shorter than
\* the number of decisions that returned success), and the last write is
\* the list read plus one entry.
C4_LostDecision ==
    \A c, d \in Callers : Raced(c, d) =>
        Len(request.approvals) < Len(decisionLog)

\* an approve and a deny raced and the stored list grew by one entry only
C4_Witness ==
    \E c, d \in Callers :
        /\ Raced(c, d)
        /\ call[c].op = "approve" /\ call[d].op = "deny"
        /\ Len(request.approvals) = Len(call[c].approvals) + 1
        /\ Len(decisionLog) = Len(call[c].approvals) + 2

\* the step in which checkRequestExpiry of caller c reads the request
CheckEvaluates(c) ==
    /\ call[c].pc = "idle"
    /\ call'[c].pc \in {"read", "done"}
    /\ call'[c].op = "check"

\* the step in which the update of checkRequestExpiry of caller c succeeds
CheckCompletes(c) ==
    /\ call[c].pc = "read" /\ call[c].op = "check"
    /\ call'[c].pc = "done" /\ call'[c].result = "ok"

\* C5 as stated: a pending request evaluated at now >= expiresAt is marked
\* expired, one evaluated at now < expiresAt stays pending.
C5_ExpiryInclusive ==
    [][\A c \in Callers :
        /\ (CheckEvaluates(c) /\ request.status = "pending") =>
              /\ now >= request.expiresAt => call'[c].pc = "read"
              /\ now < request.expiresAt =>
                    (call'[c].pc = "done" /\ request' = request)
        /\ CheckCompletes(c) => request'.status = "expired"]_vars

\* C5 (amended): a pending request evaluated by checkRequestExpiry at
\* now > expiresAt is marked expired by the method's update; one evaluated at
\* now <= expiresAt, the boundary included, is returned still pending.
C5_ExpiryStrict ==
    [][\A c \in Callers :
        /\ (CheckEvaluates(c) /\ request.status = "pending") =>
              /\ now > request.expiresAt => call'[c].pc = "read"
              /\ now <= request.expiresAt =>
                    (call'[c].pc = "done" /\ request' = request)
        /\ CheckCompletes(c) => request'.status = "expired"]_vars

\* a check has returned the request at the boundary now = expiresAt still pending
C5_Witness ==
    \E c \in Callers :
        /\ call[c].pc = "done" /\ call[c].op = "check" /\ call[c].result = "ok"
        /\ request.status = "pending"
        /\ request.expiresAt = now

----------------------------------------------------------------------------
(* Offline queue: properties *)

\* the positions of operation o in a queue
Positions(queue, o) == {i \in 1..Len(queue) : queue[i] = o}

\* the step in which executeWithOfflineSupport is called for operation o
\* while offline with queueOnOffline = q
CalledOffline(o, q) ==
    /\ offlineState.isOfflineMode
    /\ exec[o].via = "none" /\ exec'[o].via # "none"
    /\ exec'[o].queueOnOffline = q

\* C6: called while offline with queueOnOffline = false, the call rejects at
\* once with an error whose code is OFFLINE_ERROR, the operation is not
\* invoked and the queue length does not change.
C6_RefusedWithOfflineError ==
    [][\A o \in Ops : CalledOffline(o, FALSE) =>
          /\ exec'[o].promise = "rejected"
          /\ exec'[o].with = "OFFLINE_ERROR"
          /\ thunk'[o].invoked = thunk[o].invoked
          /\ Len(operationQueue') = Len(operationQueue)]_vars

\* the 5-minute timer of the entry of operation o has run
TimerHasRun(o) ==
    /\ entry[o].made /\ ~entry[o].timeout
    /\ now >= entry[o].timestamp + QueueTimeoutMs

\* C7: once the 5-minute timer of a queued operation has run, the entry is
\* no longer in the queue, and the caller's promise is settled: rejected
\* with the timeout failure unless the operation completed before.
C7_TimedOutEntryRemoved ==
    \A o \in Ops : TimerHasRun(o) =>
        /\ ~InQueue(o)
        /\ exec[o].promise # "pending"

\* the step in which handleOnlineTransition calls processOperationQueue
DrainRequested == onlineHooks' = onlineHooks - 1

\* C8: at most one drain is in progress, so no operation is being run by two
\* drains, and a drain requested while one is in progress changes nothing:
\* no operation is invoked, the queue and the running drain are as before.
C8_SingleFlight ==
    /\ [](/\ Len(drains) <= 1
          /\ \A i, j \in 1..Len(drains) :
                i # j => drains[i].unsettled \cap drains[j].unsettled = {})
    /\ [][(DrainRequested /\ Len(drains) > 0) =>
             UNCHANGED <<drains, thunk, operationQueue, isProcessingQueue,
                         entry, retryTimers, exec>>]_vars

\* the network came back while a drain was waiting for its operations, and
\* the drain requested by that transition was dropped
C8_Witness ==
    /\ lastDrainRequest = "dropped"
    /\ Len(drains) = 1
    /\ drains[1].unsettled # {}
    /\ isProcessingQueue

\* C9: when the operation attempted directly fails with error e, it is
\* enqueued exactly if queueOnOffline is true and the Error Classifier puts
\* e in a retryable class; otherwise the original error reaches the caller
\* and the queue is unchanged.
C9_QueuedIffClassifiedRetryable ==
    [][\A o \in Ops : \A e \in RawErrors :
          (exec[o].via = "direct" /\ directFails(o, e)) =>
             IF exec[o].queueOnOffline /\ shouldRetry(handleError(e))
             THEN Positions(operationQueue', o) # {}
             ELSE /\ exec'[o].promise = "rejected"
                  /\ exec'[o].with = "thrown"
                  /\ operationQueue' = operationQueue]_vars

\* C10: an operation queued by a call made while offline has exactly one
\* entry, with retry count 0, as long as it has not been invoked; the
\* promise of the call is resolved only when the entry has left the queue
\* and the operation has succeeded.
C10_ResolvesOnlyOnSuccess ==
    \A o \in Ops : exec[o].via = "queuedOffline" =>
        /\ thunk[o].invoked = 0 =>
              /\ Cardinality(Positions(operationQueue, o)) = 1
              /\ entry[o].retryCount = 0
        /\ exec[o].promise = "resolved" =>
              /\ ~InQueue(o)
              /\ thunk[o].succeeded

\* the step in which the entry of operation o leaves the queue
LeavesQueue(o) == InQueue(o) /\ Positions(operationQueue', o) = {}

\* C11: an entry leaves the queue only when its operation has succeeded,
\* when its retry count has exceeded maxRetries, or when it has been queued
\* for 5 minutes; an entry whose operation failed with retries left stays.
C11_LeavesQueueForCause ==
    [][\A o \in Ops : LeavesQueue(o) =>
          \/ thunk'[o].succeeded
          \/ entry'[o].retryCount > entry'[o].maxRetries
          \/ now >= entry[o].timestamp + QueueTimeoutMs]_vars

----------------------------------------------------------------------------
(* ErrorHandler: properties *)

RetryableClasses == {"RETRYABLE_ERROR", "NETWORK_ERROR", "TIMEOUT_ERROR"}

\* C12: shouldRetry(e) is true exactly when the code of e is
\* RETRYABLE_ERROR, NETWORK_ERROR or TIMEOUT_ERROR.
C12_ShouldRetryIffRetryableCode ==
    lastCall.fn = "shouldRetry" =>
        (lastCall.result <=> lastCall.arg.code \in RetryableClasses)

\* shouldRetry has answered true for an error classified TIMEOUT_ERROR
C12_Witness ==
    /\ lastCall.fn = "shouldRetry"
    /\ lastCall.arg.code = "TIMEOUT_ERROR"
    /\ lastCall.result = TRUE

\* C13: for an attempt index n >= 0 the delay is min(1000 * 2^n, 30000) plus
\* a jitter in [0, 1000); without the jitter it does not decrease as n
\* grows and is never above 30000.
C13_BackoffDelay ==
    lastCall.fn = "getRetryDelay" =>
        LET n == lastCall.attempt
            e == lastCall.arg
        IN /\ lastCall.jitter >= 0 /\ lastCall.jitter < 1000
           /\ lastCall.result - lastCall.jitter =
                 (IF 1000 * 2^n <= 30000 THEN 1000 * 2^n ELSE 30000)
           /\ getRetryDelay(e, n, 0) <= 30000
           /\ \A k \in 0..n : getRetryDelay(e, k, 0) <= getRetryDelay(e, n, 0)

\* a delay was asked for an attempt index at which the cap applies
C13_Witness ==
    /\ lastCall.fn = "getRetryDelay"
    /\ 1000 * 2^lastCall.attempt > 30000
    /\ lastCall.result = 30000 + lastCall.jitter

\* the step in which the operation inside withRetry throws
RetryFails == retry.pc = "calling" /\ retry'.pc \in {"waiting", "rejected"}

\* C14: withRetry, given a maximum attempt count of at least 1, invokes the
\* operation at most that many times; after a failure it retries only if attempts remain and the
\* classified error is retryable, and otherwise rejects with the classified
\* error without invoking the operation again.
C14_AtMostMaxAttempts ==
    /\ [](retry.maxRetries >= 1 => retry.invoked <= retry.maxRetries)
    /\ [][RetryFails =>
            /\ retry'.pc = "waiting" =>
                  /\ retry.invoked < retry.maxRetries
                  /\ retry'.failures[Len(retry'.failures)] \in RetryableClasses
            /\ retry'.pc = "rejected" =>
                  /\ retry'.outcome \in ClassifierCodes
                  /\ retry'.invoked = retry.invoked]_vars
    /\ [][retry.pc \in {"returned", "rejected"} => retry' = retry]_vars

\* k classified failures, all NETWORK_ERROR
NetworkFailures(k) == [i \in 1..k |-> "NETWORK_ERROR"]

\* C15: with maxRetries = 3, a run whose failures so far are at most 3
\* NETWORK_ERRORs has not been rejected; before each retry it waited
\* min(1000 * 2^n, 30000) plus the jitter for the attempt index n = 0, 1, 2
\* of the failure; when the next invocation succeeds, withRetry returns it.
C15_SucceedsAfterThreeFailures ==
    (/\ retry.pc # "idle"
     /\ retry.maxRetries = 3
     /\ \E k \in 0..3 : retry.failures = NetworkFailures(k)) =>
        /\ retry.pc # "rejected"
        /\ Len(retry.waited) = Len(retry.failures)
        /\ \A i \in 1..Len(retry.waited) :
              /\ retry.waited[i] >= Min(1000 * 2^(i - 1), 30000)
              /\ retry.waited[i] < Min(1000 * 2^(i - 1), 30000) + 1000
        /\ retry.pc = "returned" =>
              /\ retry.outcome = "result"
              /\ retry.invoked = Len(retry.failures) + 1

\* three NETWORK_ERROR failures, three waits, and the fourth invocation
\* returned
C15_Witness ==
    /\ retry.pc = "returned"
    /\ retry.maxRetries = 3
    /\ retry.failures = NetworkFailures(3)
    /\ retry.invoked = 4
    /\ Len(retry.waited) = 3

\* C16: handleError returns a classification with a taxonomy code for
\* every value, null, undefined and objects with non-string code or message
\* included; it never throws.
C16_ClassifierTotal ==
    lastCall.fn = "handleError" =>
        /\ lastCall.result.outcome = "returned"
        /\ lastCall.result.code \in ClassifierCodes \cup {"OFFLINE_ERROR"}

\* C17: the user-visible message is an entry of the table: the entry of the
\* error's code, OFFLINE_ERROR included, or the generic entry when the code
\* has none; the message of the error itself is never returned.
C17_MessageFromTable ==
    lastCall.fn = "getUserFriendlyMessage" =>
        /\ lastCall.result.text = Undefined
        /\ lastCall.result.key =
              IF lastCall.arg.code \in ClassifierCodes \cup {"OFFLINE_ERROR"}
              THEN lastCall.arg.code ELSE "UNKNOWN_ERROR"

----------------------------------------------------------------------------
(* Connectivity observer: properties *)

\* a step in which a network state change is handled and shows
NetworkStateChanged == offlineState' # offlineState \/ hookCalled' # hookCalled

\* C18: offlineMode is !connected || !internetReachable; a state change that
\* takes offlineMode from true to false calls the reconnected handler once
\* (one more drain is pending), one that takes it from false to true calls
\* the disconnected handler, one that leaves it as it was calls neither,
\* and no other step calls a handler.
C18_HooksOnFlipOnly ==
    /\ [](offlineState.isOfflineMode <=>
             (~offlineState.isConnected \/ ~offlineState.isInternetReachable))
    /\ [][NetworkStateChanged =>
            LET was == offlineState.isOfflineMode
                is == offlineState'.isOfflineMode
            IN /\ (was /\ ~is) =>
                     /\ hookCalled' = "handleOnlineTransition"
                     /\ onlineHooks' = onlineHooks + 1
               /\ (~was /\ is) =>
                     /\ hookCalled' = "handleOfflineTransition"
                     /\ onlineHooks' = onlineHooks
               /\ (was = is) =>
                     /\ hookCalled' = "none"
                     /\ onlineHooks' = onlineHooks]_vars
    /\ [][onlineHooks' > onlineHooks =>
             (offlineState.isOfflineMode /\ ~offlineState'.isOfflineMode)]_vars

\* the network went away and came back: the latest change called the
\* reconnected handler, whose drain is still to come
C18_Witness ==
    /\ hookCalled = "handleOnlineTransition"
    /\ ~offlineState.isOfflineMode
    /\ onlineHooks = 1

----------------------------------------------------------------------------
(* Entity store: properties *)

\* C19: an operation whose provider call fails returns (does not throw) a
\* result with success = false whose error is the message the Error
\* Classifier gives the failure; a listener error delivers null to a
\* document callback and an empty list to a collection callback.
C19_FailuresClassified ==
    /\ (lastCall.fn \in BaseOps /\ lastCall.result.caught) =>
          /\ lastCall.result.outcome = "returned"
          /\ lastCall.result.success = FALSE
          /\ ~throwsTypeError(lastCall.arg) =>
                lastCall.result.error = handleError(lastCall.arg).message
    /\ lastCall.fn = "subscribeToDocument" => lastCall.result.delivered = "null"
    /\ lastCall.fn = "subscribeToCollection" => lastCall.result.delivered = "[]"

----------------------------------------------------------------------------
(* State cache: properties *)

TornDown ==
    /\ store.user = NoUser
    /\ store.family = 0
    /\ store.devices = {}
    /\ store.rules = {}
    /\ store.requests = {}
    /\ store.notifications = {}

\* C20: once a logout has completed, by the store's signOut or by useAuth's
\* signOut, and until the next login, user and family are null and devices,
\* rules, requests and notifications are empty.
C20_TornDownAfterLogout == lastLogout # "none" => TornDown

----------------------------------------------------------------------------
(* Offline queue: replay after reconnection *)

\* how often the queue (a drain or a retry timer) has invoked operation o:
\* a call that was attempted directly first has one invocation of its own
queuedInvocations(o) ==
    thunk[o].invoked - (IF exec[o].via = "queuedOnFailure" THEN 1 ELSE 0)

\* operation o was queued while offline, the latest network state change
\* brought the device back online, and every reconnected handler and drain
\* that was started has finished
RestoredAndQuiet(o) ==
    /\ InQueue(o)
    /\ exec[o].via = "queuedOffline"
    /\ hookCalled = "handleOnlineTransition"
    /\ ~offlineState.isOfflineMode
    /\ onlineHooks = 0
    /\ drains = <<>>

\* C21: an operation accepted into the queue is invoked after connectivity
\* is restored, if the device stays online, before its 5-minute ceiling:
\* when the ceiling of an entry queued while offline is reached with the
\* device online since the reconnection that followed, and nothing of that
\* reconnection is still pending, the queue has invoked the operation.
C21_InvokedAfterReconnect ==
    \A o \in Ops :
        (RestoredAndQuiet(o) /\ now >= entry[o].timestamp + QueueTimeoutMs) =>
            queuedInvocations(o) > 0

----------------------------------------------------------------------------
(* Request expiry: the lazy check and the sweep *)

\* the evaluation times tried: every hour of the model, and 1 ms either side
EvalTimes == {h * HourMs + d : h \in 0..MaxHours, d \in {-1, 0, 1}}

\* the step in which caller c's checkRequestExpiry has read the document
CheckDecides(c) ==
    /\ call[c].pc = "idle" /\ request.exists
    /\ call'[c].op = "check"

\* the step in which the query of caller c's cleanupExpiredRequests returns
SweepDecides(c) == call[c].pc = "query" /\ call'[c].pc \in {"sweep", "done"}

\* C22: the lazy check and the sweep use the same predicate: for the stored
\* request and every evaluation time, checkRequestExpiry would mark it
\* expired iff the sweep's query returns it and its filter keeps it; and
\* each path, when it runs, decides to mark the request exactly when the
\* predicate of the other path holds at the time it evaluates.
C22_SamePredicate ==
    /\ [](request.exists =>
            \A t \in EvalTimes :
                expiryDue(request, t) <=>
                    (getExpiredRequests(t) /\ request.status = "pending"))
    /\ [][\A c \in Callers :
            /\ CheckDecides(c) =>
                  (call'[c].pc = "read" <=>
                      (getExpiredRequests(now) /\ request.status = "pending"))
            /\ (SweepDecides(c) /\ call'[c].result # "fail" /\ request.exists) =>
                  (call'[c].pc = "sweep" <=> expiryDue(request, call[c].tnow))]_vars

\* both paths have decided to mark the same pending request expired, one
\* caller in the lazy check and one in the sweep, neither update issued yet
C22_Witness ==
    /\ request.exists /\ request.status = "pending"
    /\ \E c, d \in Callers :
          /\ call[c].pc = "read" /\ call[c].op = "check"
          /\ call[d].pc = "sweep"

----------------------------------------------------------------------------
(* Offline queue: retries of an entry that keeps failing *)

\* the step in which an execution of operation o by the queue fails
QueuedExecutionFails(o) == entry'[o].retryCount = entry[o].retryCount + 1

\* C23: a queued operation that fails on every execution is executed by the
\* queue at most maxRetries + 1 times, over all drains and retry timers;
\* each failure that has not used up the retries schedules one retry timer
\* with the backoff delay, the failure that uses them up leaves the entry
\* out of the queue with no timer, and from then on it is not executed.
C23_BoundedRetries ==
    /\ [](\A o \in Ops :
            (entry[o].made /\ ~thunk[o].succeeded) =>
                queuedInvocations(o) <= entry[o].maxRetries + 1)
    /\ [][\A o \in Ops :
            QueuedExecutionFails(o) =>
                IF entry'[o].retryCount <= entry[o].maxRetries
                THEN \E t \in retryTimers' :
                        /\ t.op = o
                        /\ t.due = now + queueRetryDelay(entry'[o].retryCount)
                ELSE /\ \A t \in retryTimers' : t.op # o
                     /\ Positions(operationQueue', o) = {}]_vars
    /\ [][\A o \in Ops :
            (entry[o].made /\ entry[o].retryCount > entry[o].maxRetries) =>
                thunk'[o].invoked = thunk[o].invoked]_vars

\* an operation has failed maxRetries + 1 times, never succeeded, and is gone
C23_Witness ==
    \E o \in Ops :
        /\ entry[o].made /\ entry[o].maxRetries >= 1
        /\ entry[o].retryCount = entry[o].maxRetries + 1
        /\ queuedInvocations(o) = entry[o].maxRetries + 1
        /\ ~thunk[o].succeeded
        /\ ~InQueue(o)

\* C24: the delay the queue waits before it executes a failed entry again is
\* the delay of the retry wrapper after the same number of failures, jitter
\* taken as 0: after its k-th failure withRetry waits
\* getRetryDelay(error, k - 1), so the timer the queue sets at the k-th
\* failure of an entry is due after that delay.
C24_QueueDelayIsBackoffDelay ==
    [][\A o \in Ops :
          (QueuedExecutionFails(o) /\ entry'[o].retryCount <= entry[o].maxRetries) =>
              \E t \in retryTimers' :
                  /\ t.op = o
                  /\ t.due - now =
                        getRetryDelay([code |-> "NETWORK_ERROR"],
                                      entry'[o].retryCount - 1, 0)]_vars

----------------------------------------------------------------------------
(* Error Classifier: closure over the taxonomy *)

\* the codes of the taxonomy a failure may already carry
SentinelCodes ==
    {<<str_NETWORK_ERROR, "NETWORK_ERROR">>, <<str_TIMEOUT_ERROR, "TIMEOUT_ERROR">>,
     <<str_VALIDATION_ERROR, "VALIDATION_ERROR">>,
     <<str_PERMISSION_ERROR, "PERMISSION_ERROR">>,
     <<str_BUSINESS_ERROR, "BUSINESS_ERROR">>}

\* C25: a failure whose code is already NETWORK_ERROR, TIMEOUT_ERROR,
\* VALIDATION_ERROR, PERMISSION_ERROR or BUSINESS_ERROR is classified with
\* that same code, whatever the text of its message (a string, or absent).
C25_SentinelCodeKept ==
    (/\ lastCall.fn = "handleError"
     /\ isObject(lastCall.arg)
     /\ lastCall.arg.message.t # "num") =>
        \A sc \in SentinelCodes :
            equals(lastCall.arg.code, sc[1]) =>
                /\ lastCall.result.outcome = "returned"
                /\ lastCall.result.code = sc[2]

----------------------------------------------------------------------------
(* Request lifecycle: extending the expiry *)

\* the step in which the update of caller c's extendRequestExpiry lands
ExtendLands(c) ==
    /\ call[c].pc = "read" /\ call[c].op = "extend"
    /\ call'[c].pc = "done" /\ call'[c].result = "ok"

\* C26: extendRequestExpiry on a pending request changes only expiresAt, to
\* the old value plus the additional hours, and leaves status and approvals
\* as they were; on an approved, denied or expired request it changes no
\* field.
C26_ExtendFrame ==
    [][\A c \in Callers : ExtendLands(c) =>
          IF request.status = "pending"
          THEN \E h \in HourArgs :
                  request' = [request EXCEPT !.expiresAt = @ + h * HourMs]
          ELSE request' = request]_vars

----------------------------------------------------------------------------
(* State cache: the unsubscribe handles *)

\* C27: every handle the store obtains is called exactly once: a listener
\* that is live is one whose handle the store still holds in subscriptions
\* (none was overwritten or dropped uncalled), and once a logout has
\* completed no listener is live.
C27_HandlesReleased ==
    /\ listeners \subseteq store.subscriptions
    /\ lastLogout # "none" => listeners = {}

----------------------------------------------------------------------------
(* Offline queue: when queued operations run *)

\* the step in which the queue (a drain or a retry timer) invokes operation o
QueueInvokes(o) == entry[o].made /\ thunk'[o].invoked > thunk[o].invoked

\* C28: a queued operation is invoked only while offlineMode is false:
\* neither a drain nor a retry timer invokes one while the connectivity
\* observer reports offline.
C28_InvokedOnlyOnline ==
    [][\A o \in Ops : QueueInvokes(o) => ~offlineState.isOfflineMode]_vars

----------------------------------------------------------------------------
(* Database client: network access follows the connectivity observer *)

----------------------------------------------------------------------------
(* RuleService: properties *)

\* the step in which caller c's removeTargetUser returns success
RemoveSucceeds(c) ==
    /\ ruleCall[c].pc = "read" /\ ruleCall[c].op = "removeTargetUser"
    /\ ruleCall'[c].result = "ok"

\* C30: when removeTargetUser(ruleId, userId) returns success, userId is not
\* in the stored targetUserIds of the rule, also when userId was the last
\* target user.
C30_TargetUserRemoved ==
    [][\A c \in Callers : RemoveSucceeds(c) =>
          \A i \in 1..Len(rule'.targetUserIds) :
              rule'.targetUserIds[i] # ruleCall[c].userId]_vars

====
